---- MODULE Spec2Model ----
(***************************************************************************)
(* Natural-deduction proof search for propositional logic (prop-logic).    *)
(* The formula type and its classical evaluation are modelled from         *)
(* src/src/logic.rs, the search and the two printers from                  *)
(* src/src/solver.rs, the pipeline from src/src/exec.rs and src/src/main.rs*)
(***************************************************************************)
EXTENDS Naturals, Integers, Sequences, FiniteSets, TLC

(***************************************************************************)
(* Bounds of the model.                                                    *)
(***************************************************************************)
\* number of nodes of the largest input formula
MaxSize == 5
\* number of distinct atom letters available to input formulas
NumAtoms == 2
\* deepest call stack followed; the program itself has no such limit
MaxStack == 12

Letters == <<"A", "B", "C", "D">>
Atoms == {Letters[n] : n \in 1..NumAtoms}

(***************************************************************************)
(* enum Logic                                                              *)
(***************************************************************************)
Base(c) == <<"Base", c>>
Cont == <<"Cont">>
Not(f) == <<"Not", f>>
And(l, r) == <<"And", l, r>>
Or(l, r) == <<"Or", l, r>>
To(l, r) == <<"To", l, r>>

RECURSIVE LogicOfSize(_)
LogicOfSize(n) ==
  IF n = 1 THEN {Cont} \cup {Base(c) : c \in Atoms}
  ELSE {Not(f) : f \in LogicOfSize(n - 1)}
       \cup UNION {UNION {{And(l, r), Or(l, r), To(l, r)} :
                            l \in LogicOfSize(k), r \in LogicOfSize(n - 1 - k)} :
                   k \in 1..(n - 2)}

Logic == UNION {LogicOfSize(n) : n \in 1..MaxSize}

\* the letters of f in the order of their first occurrence, after those of seen
RECURSIVE FirstLetters(_, _)
FirstLetters(f, seen) ==
  CASE f[1] = "Base" ->
         IF \E n \in 1..Len(seen) : seen[n] = f[2] THEN seen ELSE Append(seen, f[2])
    [] f[1] = "Cont" -> seen
    [] f[1] = "Not" -> FirstLetters(f[2], seen)
    [] OTHER -> FirstLetters(f[3], FirstLetters(f[2], seen))

\* The inputs given to the prover: one formula for each class of formulas
\* that differ only in the names of their letters (the first letter to occur
\* is A, the next new one B, ...).  The prover only compares and hashes
\* letters, and the order of its HashMap is left open, so a renaming of the
\* letters renames the runs and nothing else.
Inputs ==
  {f \in Logic :
     LET s == FirstLetters(f, <<>>) IN \A n \in 1..Len(s) : s[n] = Letters[n]}

\* Option<Logic>
None == <<"None">>
Some(x) == <<"Some", x>>

\* HashMap<char, bool>
Maps == UNION {[D -> BOOLEAN] : D \in SUBSET Atoms}

\* an insert that loses the new entry
Insert_lost(m, k, v) == m

\* HashMap::insert: a new key is added, the value of an existing key replaced
Insert(m, k, v) == [x \in (DOMAIN m) \cup {k} |-> IF x = k THEN v ELSE m[x]]

RECURSIVE base_set(_)
base_set(f) ==
  CASE f[1] = "Base" -> {f[2]}
    [] f[1] = "Cont" -> {}
    [] f[1] = "Not" -> base_set(f[2])
    [] OTHER -> base_set(f[2]) \cup base_set(f[3])

eval_not(e) ==
  IF e = Some(Cont) THEN None
  ELSE IF e # None THEN Some(Not(e[2]))
  ELSE Some(Cont)

eval_and(l, r) ==
  IF l = Some(Cont) THEN Some(Cont)
  ELSE IF r = Some(Cont) THEN Some(Cont)
  ELSE IF l = None THEN r
  ELSE IF r = None THEN l
  ELSE Some(And(l[2], r[2]))

\* an eval_or that does not drop a false side
eval_or_keeps_cont(l, r) ==
  IF l = None THEN None
  ELSE IF r = None THEN None
  ELSE Some(Or(l[2], r[2]))

eval_or(l, r) ==
  IF l = None THEN None
  ELSE IF r = None THEN None
  ELSE IF l = Some(Cont) THEN r
  ELSE IF r = Some(Cont) THEN l
  ELSE Some(Or(l[2], r[2]))

\* an eval_to that reads "the right side is false" as "the implication is false"
eval_to_false(l, r) ==
  IF l = Some(Cont) THEN None
  ELSE IF r = None THEN None
  ELSE IF l = None THEN r
  ELSE IF r = Some(Cont) THEN Some(Cont)
  ELSE Some(To(l[2], r[2]))

eval_to(l, r) ==
  IF l = Some(Cont) THEN None
  ELSE IF r = None THEN None
  ELSE IF l = None THEN r
  ELSE IF r = Some(Cont) THEN Some(Not(l[2]))
  ELSE Some(To(l[2], r[2]))

RECURSIVE eval_part(_, _)
eval_part(f, m) ==
  CASE f[1] = "Base" ->
         IF f[2] \in DOMAIN m
         THEN (IF m[f[2]] THEN None ELSE Some(Cont))
         ELSE Some(Base(f[2]))
    [] f[1] = "Cont" -> Some(Cont)
    [] f[1] = "Not" -> eval_not(eval_part(f[2], m))
    [] f[1] = "And" -> eval_and(eval_part(f[2], m), eval_part(f[3], m))
    [] f[1] = "Or" -> eval_or(eval_part(f[2], m), eval_part(f[3], m))
    [] f[1] = "To" -> eval_to(eval_part(f[2], m), eval_part(f[3], m))

\* Result<(), CheckError>
CheckOk == <<"Ok">>
NoBase == <<"Err", <<"NoBase">>>>
TurnsOutFalse(m) == <<"Err", <<"TurnsOutFalse", m>>>>

\* The outcomes of check_all: the atom it branches on is whichever one the
\* HashSet's iterator yields first, so every atom of the formula is possible.
RECURSIVE check_all(_)
check_all(f) ==
  IF base_set(f) = {} THEN {NoBase}
  ELSE UNION {
    LET round(b) ==
          LET e == eval_part(f, c :> b) IN
          IF e = Some(Cont) THEN {TurnsOutFalse(c :> b)}
          ELSE IF e = None THEN {CheckOk}
          ELSE {IF r[1] = "Err" /\ r[2][1] = "TurnsOutFalse"
                THEN TurnsOutFalse(Insert(r[2][2], c, b))
                ELSE r : r \in check_all(e[2])}
        first_round == round(TRUE)
    IN (first_round \ {CheckOk})
       \cup (IF CheckOk \in first_round THEN round(FALSE) ELSE {}) :
    c \in base_set(f)}


\* The recursive calls of check_all below check_all(f), each as the pair
\* <<formula of the caller, formula of the callee>>.  The round for `false`
\* is run only when the round for `true` came back without an error.
RECURSIVE check_all_calls(_)
check_all_calls(f) ==
  UNION {
    LET below(b) ==
          LET e == eval_part(f, c :> b) IN
          IF e = None \/ e = Some(Cont) THEN {}
          ELSE {<<f, e[2]>>} \cup check_all_calls(e[2])
        passed ==
          LET e == eval_part(f, c :> TRUE) IN
          \/ e = None
          \/ e # Some(Cont) /\ CheckOk \in check_all(e[2])
    IN below(TRUE) \cup (IF passed THEN below(FALSE) ELSE {}) :
    c \in base_set(f)}

\* an Or arm of has that is content with one side
has_or_either(self, left, right) ==
  IF left # <<>> \/ right # <<>> THEN <<self>> ELSE <<>>

\* the Or arm of has: the disjunction itself, when both sides gave something
has_or(self, left, right) ==
  IF left # <<>> /\ right # <<>> THEN <<self>> ELSE <<>>

\* Logic::has: the Vec of sub-formulas of f found for refer, in push order
RECURSIVE has(_, _)
has(f, g) ==
  (IF f = g THEN <<f>> ELSE <<>>) \o
  CASE f[1] = "Base" -> <<>>
    [] f[1] = "Cont" -> <<Cont>>
    [] f[1] = "Not" -> IF g = f[2] THEN <<f>> ELSE has(f[2], g)
    [] f[1] = "And" ->
         IF g = f[2] \/ g = f[3] THEN <<f>> ELSE has(f[2], g) \o has(f[3], g)
    [] f[1] = "Or" -> has_or(f, has(f[2], g), has(f[3], g))
    [] f[1] = "To" -> IF g = f[3] THEN <<f>> ELSE has(f[3], g)


\* Logic::depth: the number of connectives on the longest branch
RECURSIVE depth(_)
depth(f) ==
  CASE f[1] \in {"Base", "Cont"} -> 0
    [] f[1] = "Not" -> depth(f[2]) + 1
    [] OTHER -> (IF depth(f[2]) >= depth(f[3]) THEN depth(f[2]) ELSE depth(f[3])) + 1

\* Logic::children: the sub-formulas of f, f itself included
RECURSIVE children(_)
children(f) ==
  {f} \cup CASE f[1] \in {"Base", "Cont"} -> {}
             [] f[1] = "Not" -> children(f[2])
             [] OTHER -> children(f[2]) \cup children(f[3])


(***************************************************************************)
(* The state of one run of the program on the input formula `logic`.       *)
(***************************************************************************)
VARIABLES
  logic,    \* the parsed input formula
  stack,    \* the call stack of the search, innermost call last
  ret,      \* the value the innermost finished call handed to its caller
  fresh,    \* number of marker cells (Rc<RefCell<usize>>) allocated so far
  first,    \* the result of the previous run on the same input, if any
  cells,    \* the integers held by the marker cells that have been written
  shown,    \* what each printer produced on the proof of this run
  map,      \* a partial truth assignment handed to eval_part
  value,    \* what eval_part returned for (logic, map)
  check,    \* what check_all returned for logic
  refer,    \* the formula handed to has as the one to look for
  found     \* what has returned for (logic, refer)

vars == <<logic, stack, ret, fresh, first, cells, shown, map, value, check, refer,
          found>>

\* a variable whose operation has not run yet
Unset == <<"Unset">>

(***************************************************************************)
(* struct Problem, struct Inference, enum InferenceType.  A marker is the  *)
(* identity of its Rc allocation; a weak reference is that same identity.  *)
(***************************************************************************)
EmptyAxioms == [k \in {} |-> 0]

\* One element of Problem::history.  The clone's own history is the prefix
\* of the list in front of it, so it is not stored a second time.
Entry(self) == [logic |-> self.logic, axioms |-> self.axioms, marker |-> self.marker]

Problem_new(g, mk) ==
  [logic |-> g, axioms |-> EmptyAxioms, marker |-> mk, history |-> <<>>]

Problem_problem(self, g, insert, mk) ==
  [logic |-> g,
   axioms |-> IF insert = None THEN self.axioms
              ELSE Insert(self.axioms, insert[2][1], insert[2][2]),
   marker |-> mk,
   history |-> Append(self.history, Entry(self))]

Inference_problem(self, g, insert, mk) ==
  [logic |-> g,
   axioms |-> IF insert = None THEN self.axioms
              ELSE Insert(self.axioms, insert[2][1], insert[2][2]),
   marker |-> mk,
   history |-> self.history]

Axiom(w) == <<"Axiom", w>>
UnaryInf(i0) == <<"UnaryInf", i0>>
BinaryInf(i0, i1) == <<"BinaryInf", i0, i1>>
TrinaryInf(i0, i1, i2) == <<"TrinaryInf", i0, i1, i2>>

infer(self, inference) ==
  [logic |-> self.logic, axioms |-> self.axioms, marker |-> self.marker,
   history |-> self.history, inference |-> inference]

\* SolveResult
Ok(i) == <<"Ok", i>>
err(self) == <<"Err", <<"InferError", self.logic>>>>

(***************************************************************************)
(* Call stack.  A frame is one activation of a method: `self` and `target` *)
(* are its receiver and argument, `pc` the position it has reached, `todo` *)
(* what its loop has not tried yet, `ps` the sub-problems it built and     *)
(* `got` the results of sub-searches it has received.                      *)
(***************************************************************************)
Frame(fn, self, target, todo) ==
  [fn |-> fn, pc |-> 0, self |-> self, target |-> target,
   todo |-> todo, ps |-> <<>>, got |-> <<>>]

NoRet == [res |-> None, from |-> None]

top == stack[Len(stack)]
Running(fn) == stack # <<>> /\ top.fn = fn
IsOk == ret.res[1] = "Ok"
IsErr == ret.res[1] = "Err"

\* return r to the caller
Return(r) ==
  /\ stack' = SubSeq(stack, 1, Len(stack) - 1)
  /\ ret' = [res |-> r, from |-> <<top.fn, top.self>>]

\* a call whose callee works on the caller's own map of assumptions, so that
\* what the callee inserts stays in the caller's context
Call_shared(me, callee) ==
  /\ Len(stack) < MaxStack
  /\ stack' = Append([stack EXCEPT ![Len(stack)] =
                        [me EXCEPT !.self.axioms = callee.self.axioms]], callee)
  /\ ret' = NoRet

\* keep the frame as `me` and call `callee`
Call(me, callee) ==
  /\ Len(stack) < MaxStack
  /\ stack' = Append([stack EXCEPT ![Len(stack)] = me], callee)
  /\ ret' = NoRet

\* the frame's last act is the call of `callee`, whose result is its own
TailCall(callee) ==
  /\ stack' = [stack EXCEPT ![Len(stack)] = callee]
  /\ ret' = NoRet

Quiet == UNCHANGED <<logic, first, cells, shown, map, value, check, refer, found>>

(***************************************************************************)
(* impl Problem                                                            *)
(***************************************************************************)
Solve ==
  /\ Running("solve")
  /\ LET self == top.self IN
     \/ /\ top.pc = 0
        /\ Call([top EXCEPT !.pc = 1], Frame("use_axioms", self, None, DOMAIN self.axioms))
     \/ /\ top.pc \in {1, 2, 3} /\ IsOk
        /\ Return(ret.res)
     \/ /\ top.pc = 1 /\ IsErr
        /\ Call([top EXCEPT !.pc = 2], Frame("infer_logic", self, None, <<>>))
     \/ /\ top.pc = 2 /\ IsErr
        /\ Call([top EXCEPT !.pc = 3], Frame("use_axioms", self, None, DOMAIN self.axioms))
     \/ /\ top.pc = 3 /\ IsErr
        /\ Return(err(self))
  /\ UNCHANGED fresh
  /\ Quiet

\* an or-introduction that tries the right disjunct first
Disjuncts_right_first(left, right) == <<right, left>>

\* `for logic in [left, right]`: the order in which infer_or tries the disjuncts
Disjuncts(left, right) == <<left, right>>

\* The loop runs over a HashMap: the order of the assumptions is whatever the
\* map's iterator gives, so the next one is any assumption not tried yet.
UseAxioms ==
  /\ Running("use_axioms")
  /\ LET self == top.self IN
     \/ /\ top.pc = 1 /\ IsOk
        /\ Return(ret.res)
        /\ UNCHANGED fresh
     \/ /\ top.pc = 0 \/ IsErr
        /\ top.todo = {}
        /\ Return(err(self))
        /\ UNCHANGED fresh
     \/ /\ top.pc = 0 \/ IsErr
        /\ \E axiom \in top.todo :
             LET marker == self.axioms[axiom]
                 i == infer(Problem_problem(self, axiom, None, fresh + 1), Axiom(marker))
             IN /\ Call([top EXCEPT !.pc = 1, !.todo = top.todo \ {axiom}],
                        Frame("use_logic", i, self, <<>>))
                /\ fresh' = fresh + 1
  /\ Quiet

InferLogic ==
  /\ Running("infer_logic")
  /\ LET self == top.self
         op == self.logic[1]
     IN \/ /\ op = "Not" /\ TailCall(Frame("infer_not", self, None, <<>>))
        \/ /\ op = "And" /\ TailCall(Frame("infer_and", self, None, <<>>))
        \/ /\ op = "Or"
           /\ TailCall(Frame("infer_or", self, None, Disjuncts(self.logic[2], self.logic[3])))
        \/ /\ op = "To" /\ TailCall(Frame("infer_to", self, None, <<>>))
        \/ /\ op \in {"Base", "Cont"} /\ Return(err(self))
  /\ UNCHANGED fresh
  /\ Quiet

InferNot ==
  /\ Running("infer_not")
  /\ LET self == top.self
         p == Problem_problem(self, Cont, Some(<<self.logic[2], self.marker>>), fresh + 1)
     IN \/ /\ top.pc = 0
           /\ Call([top EXCEPT !.pc = 1], Frame("solve", p, None, <<>>))
           /\ fresh' = fresh + 1
        \/ /\ top.pc = 1 /\ IsErr
           /\ Return(ret.res)
           /\ UNCHANGED fresh
        \/ /\ top.pc = 1 /\ IsOk
           /\ Return(Ok(infer(self, UnaryInf(ret.res[2]))))
           /\ UNCHANGED fresh
  /\ Quiet

InferAnd ==
  /\ Running("infer_and")
  /\ LET self == top.self
         p0 == Problem_problem(self, self.logic[2], None, fresh + 1)
         p1 == Problem_problem(self, self.logic[3], None, fresh + 2)
     IN \/ /\ top.pc = 0
           /\ Call([top EXCEPT !.pc = 1, !.ps = <<p0, p1>>], Frame("solve", p0, None, <<>>))
           /\ fresh' = fresh + 2
        \/ /\ top.pc \in {1, 2} /\ IsErr
           /\ Return(ret.res)
           /\ UNCHANGED fresh
        \/ /\ top.pc = 1 /\ IsOk
           /\ Call([top EXCEPT !.pc = 2, !.got = <<ret.res[2]>>],
                   Frame("solve", top.ps[2], None, <<>>))
           /\ UNCHANGED fresh
        \/ /\ top.pc = 2 /\ IsOk
           /\ Return(Ok(infer(self, BinaryInf(top.got[1], ret.res[2]))))
           /\ UNCHANGED fresh
  /\ Quiet

InferOr ==
  /\ Running("infer_or")
  /\ LET self == top.self IN
     \/ /\ top.pc = 1 /\ IsOk
        /\ Return(Ok(infer(self, UnaryInf(ret.res[2]))))
        /\ UNCHANGED fresh
     \/ /\ top.pc = 0 \/ IsErr
        /\ top.todo = <<>>
        /\ Return(err(self))
        /\ UNCHANGED fresh
     \/ /\ top.pc = 0 \/ IsErr
        /\ top.todo # <<>>
        /\ LET p == Problem_problem(self, Head(top.todo), None, fresh + 1) IN
           Call([top EXCEPT !.pc = 1, !.todo = Tail(top.todo), !.ps = Append(@, p),
                            !.got = IF top.pc = 0 THEN @ ELSE Append(@, ret.res)],
                Frame("solve", p, None, <<>>))
        /\ fresh' = fresh + 1
  /\ Quiet

InferTo ==
  /\ Running("infer_to")
  /\ LET self == top.self
         p0 == Problem_problem(self, self.logic[3], Some(<<self.logic[2], self.marker>>),
                               fresh + 1)
     IN \/ /\ top.pc = 0
           /\ Call([top EXCEPT !.pc = 1], Frame("solve", p0, None, <<>>))
           /\ fresh' = fresh + 1
        \/ /\ top.pc = 1 /\ IsErr
           /\ Return(ret.res)
           /\ UNCHANGED fresh
        \/ /\ top.pc = 1 /\ IsOk
           /\ Return(Ok(infer(self, UnaryInf(ret.res[2]))))
           /\ UNCHANGED fresh
  /\ Quiet

(***************************************************************************)
(* impl Inference                                                          *)
(***************************************************************************)
UseLogic ==
  /\ Running("use_logic")
  /\ LET self == top.self
         target == top.target
         op == self.logic[1]
     IN \/ /\ self.logic = target.logic
           /\ Return(Ok(self))
        \/ /\ self.logic # target.logic
           /\ \/ /\ op = "Cont" /\ TailCall(Frame("use_cont", self, target, <<>>))
              \/ /\ op = "Not" /\ TailCall(Frame("use_not", self, target, <<>>))
              \/ /\ op = "And"
                 /\ TailCall(Frame("use_and", self, target, <<self.logic[2], self.logic[3]>>))
              \/ /\ op = "Or" /\ TailCall(Frame("use_or", self, target, <<>>))
              \/ /\ op = "To" /\ TailCall(Frame("use_to", self, target, <<>>))
              \/ /\ op = "Base" /\ Return(err(self))
  /\ UNCHANGED fresh
  /\ Quiet

\* a use_cont that upgrades its own problem instead of the target
UseContSelf ==
  /\ Running("use_cont")
  /\ Return(Ok(infer(top.self, UnaryInf(top.self))))
  /\ UNCHANGED fresh
  /\ Quiet

UseCont ==
  /\ Running("use_cont")
  /\ Return(Ok(infer(top.target, UnaryInf(top.self))))
  /\ UNCHANGED fresh
  /\ Quiet

UseNot ==
  /\ Running("use_not")
  /\ LET self == top.self
         p0 == Inference_problem(self, self.logic[2], None, fresh + 1)
         p == Inference_problem(self, Cont, None, fresh + 2)
     IN \/ /\ top.pc = 0
           /\ Call([top EXCEPT !.pc = 1, !.ps = <<p0, p>>], Frame("solve", p0, None, <<>>))
           /\ fresh' = fresh + 2
        \/ /\ top.pc = 1 /\ IsErr
           /\ Return(ret.res)
           /\ UNCHANGED fresh
        \/ /\ top.pc = 1 /\ IsOk
           /\ TailCall(Frame("use_logic", infer(top.ps[2], BinaryInf(ret.res[2], self)),
                             top.target, <<>>))
           /\ UNCHANGED fresh
  /\ Quiet

UseAnd ==
  /\ Running("use_and")
  /\ LET self == top.self IN
     \/ /\ top.pc = 1 /\ IsOk
        /\ Return(ret.res)
        /\ UNCHANGED fresh
     \/ /\ top.pc = 0 \/ IsErr
        /\ top.todo = <<>>
        /\ Return(err(self))
        /\ UNCHANGED fresh
     \/ /\ top.pc = 0 \/ IsErr
        /\ top.todo # <<>>
        /\ LET p == Inference_problem(self, Head(top.todo), None, fresh + 1)
               i == infer(p, UnaryInf(self))
           IN Call([top EXCEPT !.pc = 1, !.todo = Tail(top.todo)],
                   Frame("use_logic", i, top.target, <<>>))
        /\ fresh' = fresh + 1
  /\ Quiet

UseOr ==
  /\ Running("use_or")
  /\ LET self == top.self
         p1 == Inference_problem(self, self.logic, Some(<<self.logic[2], self.marker>>),
                                 fresh + 1)
         p2 == Inference_problem(self, self.logic, Some(<<self.logic[3], self.marker>>),
                                 fresh + 2)
     IN \/ /\ top.pc = 0
           /\ Call([top EXCEPT !.pc = 1, !.ps = <<p1, p2>>], Frame("solve", p1, None, <<>>))
           /\ fresh' = fresh + 2
        \/ /\ top.pc \in {1, 2} /\ IsErr
           /\ Return(ret.res)
           /\ UNCHANGED fresh
        \/ /\ top.pc = 1 /\ IsOk
           /\ Call([top EXCEPT !.pc = 2, !.got = <<ret.res[2]>>],
                   Frame("solve", top.ps[2], None, <<>>))
           /\ UNCHANGED fresh
        \/ /\ top.pc = 2 /\ IsOk
           /\ Return(Ok(infer(top.target, TrinaryInf(self, top.got[1], ret.res[2]))))
           /\ UNCHANGED fresh
  /\ Quiet

UseTo ==
  /\ Running("use_to")
  /\ LET self == top.self
         p0 == Inference_problem(self, self.logic[2], None, fresh + 1)
         p == Inference_problem(self, self.logic[3], None, fresh + 2)
     IN \/ /\ top.pc = 0
           /\ Call([top EXCEPT !.pc = 1, !.ps = <<p0, p>>], Frame("solve", p0, None, <<>>))
           /\ fresh' = fresh + 2
        \/ /\ top.pc = 1 /\ IsErr
           /\ Return(ret.res)
           /\ UNCHANGED fresh
        \/ /\ top.pc = 1 /\ IsOk
           /\ TailCall(Frame("use_logic", infer(top.ps[2], BinaryInf(ret.res[2], self)),
                             top.target, <<>>))
           /\ UNCHANGED fresh
  /\ Quiet

\* the premises of a node, the last one first
Children_last_first(i) ==
  IF i.inference[1] = "Axiom" THEN <<>>
  ELSE [n \in 1..(Len(i.inference) - 1) |-> i.inference[Len(i.inference) + 1 - n]]

(***************************************************************************)
(* One run: Problem::new(&logic).solve().  main's interactive loop takes   *)
(* the next input when a run has ended; Again is that loop given the same  *)
(* formula a second time.                                                  *)
(***************************************************************************)
(***************************************************************************)
(* The printers.  Both walk the proof with a counter `after`; a node whose *)
(* marker has a weak reference to it is given the next integer, which is   *)
(* written into the marker's cell.  When a printer runs, the proof is the  *)
(* only value of the search still alive, so the weak references to a       *)
(* marker are the Axiom leaves of the proof that hold it.                  *)
(***************************************************************************)
Children(i) ==
  IF i.inference[1] = "Axiom" THEN <<>>
  ELSE [n \in 1..(Len(i.inference) - 1) |-> i.inference[n + 1]]

RECURSIVE weak_count(_, _)
weak_count(root, m) ==
  IF root.inference[1] = "Axiom"
  THEN (IF root.inference[2] = m THEN 1 ELSE 0)
  ELSE LET c == Children(root)
           sum[n \in 0..Len(c)] == IF n = 0 THEN 0 ELSE sum[n - 1] + weak_count(c[n], m)
       IN sum[Len(c)]

\* RefCell::borrow on a marker: a cell not written yet holds the 0 it was made with
Borrow(cs, m) == IF m \in DOMAIN cs THEN cs[m] ELSE 0

\* The state a printer threads through its walk: the cells, the counter, the
\* text so far (a list of lines), the labels this walk has stamped and the
\* stampings in the order they were made, each <<marker, integer>>.
Blank(cs) ==
  [cells |-> cs, after |-> 0, tree |-> <<>>, labels |-> EmptyAxioms, stamps |-> <<>>]

\* a stamping that forgets to advance the counter
Replace_stale(self, st) ==
  [st EXCEPT !.cells = Insert(st.cells, self.marker, st.after + 1),
             !.labels = Insert(st.labels, self.marker, st.after + 1),
             !.stamps = Append(st.stamps, <<self.marker, st.after + 1>>)]

\* *after += 1; self.marker.replace(*after)
Replace(self, st) ==
  [st EXCEPT !.after = st.after + 1,
             !.cells = Insert(st.cells, self.marker, st.after + 1),
             !.labels = Insert(st.labels, self.marker, st.after + 1),
             !.stamps = Append(st.stamps, <<self.marker, st.after + 1>>)]

\* the first statement of print: the node is numbered if its marker is in use
print_number(self, root, st) ==
  IF weak_count(root, self.marker) > 0 THEN Replace(self, st) ELSE st

\* a printer that numbers every node that has a marker, used or not
print_tex_number_all(self, root, st) == Replace(self, st)

\* the first statement of print_tex: the same test, written out a second time
print_tex_number(self, root, st) ==
  IF weak_count(root, self.marker) > 0 THEN Replace(self, st) ELSE st

\* Inference::print.  `lead` is what the caller pushed in front of the line.
RECURSIVE print(_, _, _, _, _)
print(self, root, lead, indent, st) ==
  LET live == weak_count(root, self.marker) > 0
      s1 == print_number(self, root, st)
      marker == IF live THEN <<" : ", Borrow(s1.cells, self.marker)>>
                ELSE IF self.inference[1] = "Axiom"
                THEN <<" from: ", Borrow(s1.cells, self.inference[2])>>
                ELSE <<>>
      s2 == [s1 EXCEPT !.tree = Append(s1.tree, <<lead, self.logic, marker>>)]
      c == Children(self)
      walk[n \in 0..Len(c)] ==
        IF n = 0 THEN s2
        ELSE print(c[n], root, indent \o <<"+ ">>,
                   indent \o <<IF n = Len(c) THEN "  " ELSE "| ">>, walk[n - 1])
  IN walk[Len(c)]

\* Inference::print_tex
RECURSIVE print_tex(_, _, _, _)
print_tex(self, root, indent, st) ==
  LET live == weak_count(root, self.marker) > 0
      s1 == print_tex_number(self, root, st)
      marker == IF live THEN <<"[", Borrow(s1.cells, self.marker), "]">> ELSE <<>>
      c == Children(self)
      open == IF self.inference[1] = "Axiom"
              THEN <<indent, "[]_", self.logic, <<Borrow(s1.cells, self.inference[2])>>>>
              ELSE <<indent, "\\infer", self.logic, marker>>
      s2 == [s1 EXCEPT !.tree = Append(s1.tree, open)]
      walk[n \in 0..Len(c)] ==
        IF n = 0 THEN s2
        ELSE LET sep == IF n = 1 THEN walk[0]
                        ELSE [walk[n - 1] EXCEPT
                                !.tree = Append(walk[n - 1].tree, <<indent \o <<"  ">>, "&", <<>>, <<>>>>)]
             IN print_tex(c[n], root, indent \o <<"  ">>, sep)
      s3 == walk[Len(c)]
  IN IF self.inference[1] = "Axiom" THEN s2
     ELSE [s3 EXCEPT !.tree = Append(s3.tree, <<indent, "}", <<>>, <<>>>>)]

Unshown == [done |-> FALSE, tree |-> <<>>, labels |-> EmptyAxioms, stamps |-> <<>>]
NotShown == [ascii |-> Unshown, tex |-> Unshown]

\* impl Display for Inference, reached from exec with tex = false
Display ==
  /\ stack = <<>> /\ IsOk
  /\ ~shown.ascii.done
  /\ LET st == print(ret.res[2], ret.res[2], <<>>, <<>>, Blank(cells)) IN
     /\ cells' = st.cells
     /\ shown' = [shown EXCEPT !.ascii = [done |-> TRUE, tree |-> st.tree,
                                         labels |-> st.labels, stamps |-> st.stamps]]
  /\ UNCHANGED <<logic, stack, ret, fresh, first, map, value, check, refer, found>>

\* impl TeX for Inference, reached from exec with tex = true
TeX ==
  /\ stack = <<>> /\ IsOk
  /\ ~shown.tex.done
  /\ LET st == print_tex(ret.res[2], ret.res[2], <<>>, Blank(cells)) IN
     /\ cells' = st.cells
     /\ shown' = [shown EXCEPT !.tex = [done |-> TRUE, tree |-> st.tree,
                                       labels |-> st.labels, stamps |-> st.stamps]]
  /\ UNCHANGED <<logic, stack, ret, fresh, first, map, value, check, refer, found>>

\* What two proof trees are compared by: the rule kind, the conclusion and the
\* children of every node, in order.
RECURSIVE Shape(_)
Shape(i) ==
  LET c == Children(i) IN
  <<i.inference[1], i.logic, [n \in 1..Len(c) |-> Shape(c[n])]>>

\* a finished run as its caller sees it: the proof's shape, or the error
Outcome(r) == IF r[1] = "Ok" THEN <<"Ok", Shape(r[2])>> ELSE r

\* Problem::new(g).solve(): the search begins on goal g, empty context
Start(g) ==
  /\ stack' = <<Frame("solve", Problem_new(g, 1), None, <<>>)>>
  /\ ret' = NoRet
  /\ fresh' = 1

\* Logic::eval_part applied to the input under the assignment `map`
EvalPart ==
  /\ value = Unset
  /\ value' = eval_part(logic, map)
  /\ UNCHANGED <<logic, stack, ret, fresh, first, cells, shown, map, check, refer, found>>

\* Logic::check_all applied to the input
CheckAll ==
  /\ check = Unset
  /\ check' \in check_all(logic)
  /\ UNCHANGED <<logic, stack, ret, fresh, first, cells, shown, map, value, refer, found>>

\* nothing has been called on the input yet, or exec stopped at the gate
Idle == stack = <<>> /\ ret = NoRet

\* exec's validity gate: `logic.check_all()?`; an error ends exec there
Gate ==
  /\ Idle
  /\ CheckAll

\* Logic::solve, called by exec after the gate has passed, or called on its
\* own by a user of the library
LogicSolve ==
  /\ Idle
  /\ check \in {Unset, CheckOk}
  /\ Start(logic)
  /\ UNCHANGED <<logic, first, cells, shown, map, value, check, refer, found>>

Finished == stack = <<>> /\ ret # NoRet

Again ==
  /\ Finished
  /\ first = Unset
  /\ first' = Outcome(ret.res)
  /\ Start(logic)
  /\ cells' = EmptyAxioms
  /\ shown' = NotShown
  /\ UNCHANGED <<logic, map, value, check, refer, found>>

Init ==
  /\ logic \in Inputs
  /\ stack = <<>>
  /\ ret = NoRet
  /\ fresh = 0
  /\ first = Unset
  /\ cells = EmptyAxioms
  /\ shown = NotShown
  /\ map = EmptyAxioms
  /\ value = Unset
  /\ check = Unset
  /\ refer = Unset
  /\ found = Unset

Next ==
  \/ Gate
  \/ LogicSolve
  \/ Solve
  \/ UseAxioms
  \/ InferLogic
  \/ InferNot
  \/ InferAnd
  \/ InferOr
  \/ InferTo
  \/ UseLogic
  \/ UseCont
  \/ UseNot
  \/ UseAnd
  \/ UseOr
  \/ UseTo
  \/ Display
  \/ TeX
  \/ Again

Spec == Init /\ [][Next]_vars

(***************************************************************************)
(* The formula operations on their own: every input formula with every     *)
(* partial assignment of its letters.                                      *)
(***************************************************************************)
InitLogic ==
  /\ logic \in Logic
  /\ map \in Maps
  /\ value = Unset
  /\ check = Unset
  /\ stack = <<>>
  /\ ret = NoRet
  /\ fresh = 0
  /\ first = Unset
  /\ cells = EmptyAxioms
  /\ shown = NotShown
  /\ refer = Unset
  /\ found = Unset

NextLogic ==
  \/ EvalPart
  \/ CheckAll

SpecLogic == InitLogic /\ [][NextLogic]_vars

(***************************************************************************)
(* Logic::has on its own: every input formula, asked for each of its       *)
(* sub-formulas and for each formula of one node.                          *)
(***************************************************************************)
InitHas ==
  /\ logic \in Logic
  /\ refer \in children(logic) \cup LogicOfSize(1)
  /\ found = Unset
  /\ map = EmptyAxioms
  /\ value = Unset
  /\ check = Unset
  /\ stack = <<>>
  /\ ret = NoRet
  /\ fresh = 0
  /\ first = Unset
  /\ cells = EmptyAxioms
  /\ shown = NotShown

\* Logic::has applied to the input and the formula looked for
Has ==
  /\ found = Unset
  /\ found' = has(logic, refer)
  /\ UNCHANGED <<logic, stack, ret, fresh, first, cells, shown, map, value, check, refer>>

NextHas == Has

SpecHas == InitHas /\ [][NextHas]_vars



(***************************************************************************)
(* Properties.                                                             *)
(***************************************************************************)
\* the proof a finished run returned
Proved == stack = <<>> /\ ret.res[1] = "Ok"
Proof == ret.res[2]

\* One node against the rules of natural deduction: ->-I, not-I, and-E, or-I
\* and bot-E for one premise; and-I, ->-E and not-E for two; or-E for three.
RuleOk(i) ==
  LET g == i.logic
      c == Children(i)
      kind == i.inference[1]
  IN CASE kind = "Axiom" -> TRUE
       [] kind = "UnaryInf" ->
            LET p == c[1].logic IN
            \/ g[1] = "To" /\ p = g[3]
            \/ g[1] = "Not" /\ p = Cont
            \/ p[1] = "And" /\ (g = p[2] \/ g = p[3])
            \/ g[1] = "Or" /\ (p = g[2] \/ p = g[3])
            \/ p = Cont
       [] kind = "BinaryInf" ->
            LET a == c[1].logic
                b == c[2].logic
            IN \/ g = And(a, b)
               \/ b = To(a, g)
               \/ a = To(b, g)
               \/ g = Cont /\ (b = Not(a) \/ a = Not(b))
       [] kind = "TrinaryInf" ->
            c[1].logic[1] = "Or" /\ c[2].logic = g /\ c[3].logic = g

RECURSIVE Sound(_)
Sound(i) == RuleOk(i) /\ \A n \in 1..Len(Children(i)) : Sound(Children(i)[n])

\* C1 (soundness): in the proof returned by a run, every node that is not an
\* Axiom follows from its children by a rule of natural deduction; the second
\* and third child of a three-premise node conclude the node's own conclusion.
C1_Soundness == Proved => Sound(Proof)

\* C2: a call of solve that succeeds, at the root or below it, returns a node
\* whose conclusion is the goal of the problem it was called on and whose
\* context is that problem's context, key for key and marker for marker; the
\* proof a run returns concludes the input formula under the empty context.
C2_SolveReturnsGoalAndContext ==
  /\ (ret.res[1] = "Ok" /\ ret.from[1] = "solve") =>
       /\ ret.res[2].logic = ret.from[2].logic
       /\ ret.res[2].axioms = ret.from[2].axioms
  /\ Proved => (Proof.logic = logic /\ Proof.axioms = EmptyAxioms)

\* a recursive call of solve, under a context that is not empty, has just
\* returned a proof to its caller
C2_Witness ==
  /\ stack # <<>>
  /\ ret.res[1] = "Ok"
  /\ ret.from[1] = "solve"
  /\ DOMAIN ret.from[2].axioms # {}

\* C3 (classical-validity necessity): when the search returns a proof of the
\* input formula, check_all accepts that formula.
C3_ProvedImpliesClassicallyValid == Proved => check_all(logic) = {CheckOk}

\* C4 (termination): no problem is entered while a problem with the same goal
\* and the same context, key for key and marker for marker, is still being
\* solved further up the call chain.
C4_NoReentry ==
  \A j \in 1..Len(stack) : \A k \in 1..Len(stack) :
    (j < k /\ stack[j].fn = "solve" /\ stack[k].fn = "solve") =>
      ~(/\ stack[j].self.logic = stack[k].self.logic
        /\ stack[j].self.axioms = stack[k].self.axioms)

\* C5 (determinism): two runs on the same input formula that both return a
\* proof return proofs of the same shape: the same rule kinds, conclusions
\* and children in the same order.
C5_Determinism ==
  (Proved /\ first # Unset /\ first[1] = "Ok") => Outcome(ret.res) = first

\* the assumptions, each with its marker, that node i discharges over its
\* n-th child
Introduced(i, n) ==
  LET g == i.logic
      c == Children(i)
      kind == i.inference[1]
  IN IF kind = "UnaryInf" /\ g[1] = "To" /\ c[1].logic = g[3]
     THEN {<<i.marker, g[2]>>}
     ELSE IF kind = "UnaryInf" /\ g[1] = "Not" /\ c[1].logic = Cont
     THEN {<<i.marker, g[2]>>}
     ELSE IF kind = "TrinaryInf" /\ c[1].logic[1] = "Or" /\ n \in {2, 3}
     THEN {<<i.marker, c[1].logic[n]>>}
     ELSE {}

RECURSIVE Discharged(_, _)
Discharged(i, above) ==
  IF i.inference[1] = "Axiom"
  THEN <<i.inference[2], i.logic>> \in above
  ELSE \A n \in 1..Len(Children(i)) :
         Discharged(Children(i)[n], above \cup Introduced(i, n))

\* C6 (discharge well-formedness): in the proof returned by a run, the marker
\* an Axiom leaf refers to is the marker of a node strictly above the leaf (a
\* ->-I node, a not-I node, or the or-E node above the branch), and the leaf
\* concludes the formula that node added to the context.
C6_DischargeWellFormed == Proved => Discharged(Proof, {})

\* C7: the two printers number the same nodes of a proof and give each
\* numbered marker the same integer, in whichever order they are run on it.
C7_PrintersNumberAlike ==
  (shown.ascii.done /\ shown.tex.done) => shown.ascii.labels = shown.tex.labels

\* both printers have run on a proof in which some node is numbered and
\* some node is not
C7_Witness ==
  /\ shown.ascii.done
  /\ shown.tex.done
  /\ DOMAIN shown.ascii.labels # {}
  /\ Proof.marker \notin DOMAIN shown.ascii.labels

\* classical truth of a formula under a total assignment of its letters
RECURSIVE Truth(_, _)
Truth(f, v) ==
  CASE f[1] = "Base" -> v[f[2]]
    [] f[1] = "Cont" -> FALSE
    [] f[1] = "Not" -> ~Truth(f[2], v)
    [] f[1] = "And" -> Truth(f[2], v) /\ Truth(f[3], v)
    [] f[1] = "Or" -> Truth(f[2], v) \/ Truth(f[3], v)
    [] f[1] = "To" -> Truth(f[2], v) => Truth(f[3], v)

Tautology(f) == \A v \in [base_set(f) -> BOOLEAN] : Truth(f, v)

\* the total assignments that extend the partial assignment m
Completions(m) == {v \in [Atoms -> BOOLEAN] : \A c \in DOMAIN m : v[c] = m[c]}

\* C8: check_all accepts a formula exactly when the formula is true under
\* every total assignment of its letters, a formula without letters included.
C8_CheckAllIffTautology ==
  check # Unset => ((check = CheckOk) <=> Tautology(logic))

\* C9: eval_part agrees with the truth table: None means true and Some(Cont)
\* means false under every completion of the assignment, and an assignment
\* of every letter of the formula gives one of the two.
C9_EvalPartAgreesWithTruthTable ==
  value # Unset =>
    /\ value = None => \A v \in Completions(map) : Truth(logic, v)
    /\ value = Some(Cont) => \A v \in Completions(map) : ~Truth(logic, v)
    /\ base_set(logic) \subseteq DOMAIN map => value \in {None, Some(Cont)}

\* eval_part has decided an implication although a letter of it is unassigned
C9_Witness ==
  /\ value = Some(Cont)
  /\ logic[1] = "To"
  /\ ~(base_set(logic) \subseteq DOMAIN map)

\* C10 (duplicate-key safety): when ->-I or not-I assumes a formula that the
\* context already holds, the sub-problem keeps the marker the context had
\* for it, and the introduction fails.
C10_DuplicateKeyKept ==
  /\ \A j \in 1..(Len(stack) - 1) :
       LET self == stack[j].self IN
       (/\ stack[j].fn \in {"infer_to", "infer_not"}
        /\ stack[j].pc = 1
        /\ self.logic[2] \in DOMAIN self.axioms) =>
         stack[j + 1].self.axioms[self.logic[2]] = self.axioms[self.logic[2]]
  /\ (/\ ret.from[1] \in {"infer_to", "infer_not"}
      /\ ret.from[2].logic[2] \in DOMAIN ret.from[2].axioms) =>
       ret.res[1] = "Err"

\* double-negation elimination, classically valid and not intuitionistic
DNE == To(Not(Not(Base("A"))), Base("A"))

\* a problem is being solved inside a problem with the same goal and context
Reentered ==
  \E j \in 1..Len(stack) : \E k \in 1..Len(stack) :
    /\ j < k /\ stack[j].fn = "solve" /\ stack[k].fn = "solve"
    /\ stack[j].self.logic = stack[k].self.logic
    /\ stack[j].self.axioms = stack[k].self.axioms

\* C11 (pipeline on a classically valid, intuitionistically unprovable
\* input): exec on (not not A) -> A passes the gate, and the search that
\* follows ends with the error InferError: it returns no proof, and it does
\* not fail to return, so it never runs into a problem it is already solving.
C11_PipelineRejectsDNE ==
  logic = DNE =>
    /\ check \in {Unset, CheckOk}
    /\ (check = CheckOk /\ Finished) =>
          (ret.res[1] = "Err" /\ ret.res[2][1] = "InferError")
    /\ check = CheckOk => ~Reentered

\* C12 (counter-model): whenever check_all rejects a formula with
\* TurnsOutFalse(m), the formula is false under every total assignment of
\* the letters that extends m.
C12_TurnsOutFalseIsCounterModel ==
  (check # Unset /\ check[1] = "Err" /\ check[2][1] = "TurnsOutFalse") =>
    \A v \in Completions(check[2][2]) : ~Truth(logic, v)

\* a rejection found one level down, its map extended on the way back up
C12_Witness ==
  /\ check # Unset /\ check[1] = "Err" /\ check[2][1] = "TurnsOutFalse"
  /\ DOMAIN check[2][2] = Atoms
  /\ logic[1] = "To"

\* C13 (or-introduction prefers the left disjunct): when infer_or on the goal
\* Or(l, r) under a context receives a proof from a sub-search and returns,
\* the first sub-search it started was solve(l) under that same context; the
\* premise of the or-I node it returns concludes l when that first sub-search
\* succeeded, and concludes r only after that first sub-search had failed.
C13_OrIntroPrefersLeft ==
  [][(Running("infer_or") /\ top.pc = 1 /\ IsOk) =>
       LET self == top.self
           l == self.logic[2]
           r == self.logic[3]
           premise == Children(ret'.res[2])[1]
       IN /\ ret'.from = <<"infer_or", self>>
          /\ ret'.res[1] = "Ok"
          /\ ret'.res[2].logic = self.logic
          /\ top.ps[1].logic = l
          /\ top.ps[1].axioms = self.axioms
          /\ IF Len(top.ps) = 1
             THEN ret.from = <<"solve", top.ps[1]>> /\ premise.logic = l
             ELSE /\ top.got[1][1] = "Err"
                  /\ top.ps[2].logic = r
                  /\ top.ps[2].axioms = self.axioms
                  /\ ret.from = <<"solve", top.ps[2]>>
                  /\ premise.logic = r]_vars

\* the right disjunct has been proved after the left one, a different
\* formula, was tried under a non-empty context and failed
C13_Witness ==
  /\ Running("infer_or") /\ top.pc = 1 /\ IsOk
  /\ Len(top.ps) = 2
  /\ top.self.logic[2] # top.self.logic[3]
  /\ DOMAIN top.self.axioms # {}

\* g occurs in f at a position reached from the root through the operand of
\* Not, either side of And, the right side of To, and through Or only when
\* it does so in both sides
RECURSIVE Positive(_, _)
Positive(f, g) ==
  \/ f = g
  \/ CASE f[1] = "Not" -> Positive(f[2], g)
        [] f[1] = "And" -> Positive(f[2], g) \/ Positive(f[3], g)
        [] f[1] = "Or" -> Positive(f[2], g) /\ Positive(f[3], g)
        [] f[1] = "To" -> Positive(f[3], g)
        [] OTHER -> FALSE

\* the same, with an occurrence of Cont standing for an occurrence of g
RECURSIVE PositiveOrCont(_, _)
PositiveOrCont(f, g) ==
  \/ f = g
  \/ CASE f[1] = "Cont" -> TRUE
        [] f[1] = "Not" -> PositiveOrCont(f[2], g)
        [] f[1] = "And" -> PositiveOrCont(f[2], g) \/ PositiveOrCont(f[3], g)
        [] f[1] = "Or" -> PositiveOrCont(f[2], g) /\ PositiveOrCont(f[3], g)
        [] f[1] = "To" -> PositiveOrCont(f[3], g)
        [] OTHER -> FALSE

\* C14 as stated: has(f, g) is non-empty exactly when g occurs in f at a
\* position reached through the operand of Not, either side of And, the right
\* side of To, and through Or only when both sides contain g.
C14_HasIffPositive ==
  found # Unset => ((found # <<>>) <=> Positive(logic, refer))

\* C14 as amended: has(f, g) is non-empty exactly when g or Cont occurs in f
\* at such a position, an Or being passed only when each of its sides
\* contains g or Cont at such a position.
C14_HasIffPositiveOrCont ==
  found # Unset => ((found # <<>>) <=> PositiveOrCont(logic, refer))

\* has found nothing for a formula that occurs in one side of an Or only
C14_Witness ==
  /\ found = <<>>
  /\ \E x \in children(logic) :
       /\ x[1] = "Or"
       /\ Positive(x[2], refer) /\ ~Positive(x[3], refer)

\* C15 (or-elimination): when use_or is applied to a subproof concluding
\* Or(l, r) for the goal G under the context Gamma, the first sub-search it
\* starts has goal G under Gamma with l added and the second has goal G
\* under Gamma with r added; the three-premise node it returns concludes G,
\* and so do its second and third premise.
C15_OrElimBranches ==
  /\ \A j \in 1..(Len(stack) - 1) :
       (stack[j].fn = "use_or" /\ stack[j].pc \in {1, 2} /\ stack[j + 1].fn = "solve") =>
         LET G == stack[j].target.logic
             Gamma == stack[j].target.axioms
             added == stack[j].self.logic[stack[j].pc + 1]
             sub == stack[j + 1].self
         IN /\ sub.logic = G
            /\ DOMAIN sub.axioms = (DOMAIN Gamma) \cup {added}
            /\ \A k \in DOMAIN Gamma : k # added => sub.axioms[k] = Gamma[k]
  /\ (ret.from # None /\ ret.from[1] = "use_or" /\ ret.res[1] = "Ok") =>
       LET c == Children(ret.res[2]) IN
       /\ c[1] = ret.from[2]
       /\ c[2].logic = ret.res[2].logic
       /\ c[3].logic = ret.res[2].logic

\* C16 (left-recursion guards): use_not on a subproof concluding Not(p) has
\* started its sub-search solve(p) only when the goal G it works for differs
\* from p, and use_to on a subproof concluding To(l, r) has started its
\* sub-search solve(l) only when G differs from l.
C16_LeftRecursionGuards ==
  \A j \in 1..(Len(stack) - 1) :
    (/\ stack[j].fn \in {"use_not", "use_to"}
     /\ stack[j].pc = 1
     /\ stack[j + 1].fn = "solve") =>
      /\ stack[j + 1].self.logic = stack[j].self.logic[2]
      /\ stack[j].target.logic # stack[j].self.logic[2]

\* C17 (order of assumption use): whenever use_axioms takes the next
\* assumption of the context to try, no assumption it has still to try has a
\* smaller depth than the one taken: assumptions are tried by depth
\* ascending, a smaller depth always before a greater one.
C17_AssumptionsByDepth ==
  [][(Running("use_axioms") /\ Len(stack') = Len(stack) + 1) =>
       LET taken == stack'[Len(stack')].self.logic
           left == stack'[Len(stack)].todo
       IN \A a \in left : depth(taken) <= depth(a)]_vars

\* the nodes of a proof in the order the printers visit them
RECURSIVE PreOrder(_)
PreOrder(i) ==
  LET c == Children(i)
      walk[n \in 0..Len(c)] == IF n = 0 THEN <<i>> ELSE walk[n - 1] \o PreOrder(c[n])
  IN walk[Len(c)]

\* the markers the Axiom leaves of a proof refer to
LeafMarkers(i) ==
  LET nodes == PreOrder(i) IN
  {nodes[n].inference[2] : n \in {k \in 1..Len(nodes) : nodes[k].inference[1] = "Axiom"}}

\* what the numbering pass is to do on a proof: the nodes whose marker some
\* Axiom leaf refers to, in pre-order, numbered 1, 2, ... as they come
Numbering(i) ==
  LET nodes == PreOrder(i)
      IsLive(node) == node.marker \in LeafMarkers(i)
      live == SelectSeq(nodes, IsLive)
  IN [k \in 1..Len(live) |-> <<live[k].marker, k>>]

\* C18 (numbering pass): in one rendering of a proof, by either printer, the
\* nodes that get a label are exactly the nodes whose marker at least one
\* Axiom leaf of the proof refers to, and they get the integers 1, 2, ..., k
\* in the pre-order of printing, none repeated and none skipped.
C18_NumberingPass ==
  /\ shown.ascii.done => shown.ascii.stamps = Numbering(Proof)
  /\ shown.tex.done => shown.tex.stamps = Numbering(Proof)

\* a rendering that has labelled two nodes and left another node unlabelled
C18_Witness ==
  /\ shown.tex.done
  /\ Len(shown.tex.stamps) >= 2
  /\ Len(shown.tex.stamps) < Len(PreOrder(Proof))
  /\ Proof.marker \notin DOMAIN shown.tex.labels

\* C19 (ASCII suffixes): in the ASCII rendering of a proof the search
\* returned, the line of every Axiom leaf ends with " from: N", N being the
\* integer the rendering gave to the marker the leaf refers to, and " : N"
\* ends only lines of nodes that are not Axiom leaves.
C19_AsciiSuffixes ==
  shown.ascii.done =>
    LET nodes == PreOrder(Proof)
        tree == shown.ascii.tree
    IN /\ Len(tree) = Len(nodes)
       /\ \A n \in 1..Len(nodes) :
            IF nodes[n].inference[1] = "Axiom"
            THEN /\ nodes[n].inference[2] \in DOMAIN shown.ascii.labels
                 /\ tree[n][3] = <<" from: ", shown.ascii.labels[nodes[n].inference[2]]>>
            ELSE tree[n][3] = <<>> \/ tree[n][3][1] = " : "

\* C20 (backtracking leaves the search state unchanged): a call that is
\* waiting for a sub-search keeps its goal, its context (same keys, same
\* markers) and its target whatever the sub-search does; and when an
\* alternative has failed, the next one is started by solve on the very
\* problem it was called on, by use_axioms for that same problem and from its
\* context, by infer_or under the context of its goal, and by use_and for the
\* same target and under the same context: nothing the failed attempt had
\* inserted is in it.
C20_BacktrackingKeepsProblem ==
  [][/\ \A j \in 1..Len(stack) :
          (j < Len(stack) \/ Len(stack') > Len(stack)) =>
            (j <= Len(stack') =>
               /\ stack'[j].fn = stack[j].fn
               /\ stack'[j].self = stack[j].self
               /\ stack'[j].target = stack[j].target)
     /\ (stack # <<>> /\ IsErr /\ Len(stack') = Len(stack) + 1) =>
          LET callee == stack'[Len(stack')] IN
          CASE top.fn = "solve" -> callee.self = top.self
            [] top.fn = "use_axioms" ->
                 callee.target = top.self /\ callee.self.axioms = top.self.axioms
            [] top.fn = "infer_or" -> callee.self.axioms = top.self.axioms
            [] top.fn = "use_and" ->
                 callee.target = top.target /\ callee.self.axioms = top.self.axioms
            [] OTHER -> FALSE]_vars

\* an introduction that assumed a formula new to the context has failed, and
\* solve has started its next alternative
C20_Witness ==
  \E j \in 1..(Len(stack) - 1) :
    /\ stack[j].fn = "solve" /\ stack[j].pc = 3
    /\ stack[j].self.logic[1] \in {"To", "Not"}
    /\ DOMAIN stack[j].self.axioms # {}
    /\ stack[j].self.logic[2] \notin DOMAIN stack[j].self.axioms
    /\ stack[j + 1].fn = "use_axioms"
    /\ stack[j + 1].pc = 0

\* C21 (residuals of eval_part): eval_part gives None, or Some(Cont), or
\* Some(g) where g holds no Cont, no letter the assignment gives a value to,
\* and at least one letter; hence every recursive call of check_all is made
\* on a formula with strictly fewer letters than its caller's and does not
\* return NoBase, which is returned only for an input without letters.
C21_ResidualsAndNoBase ==
  /\ (value # Unset /\ value # None /\ value # Some(Cont)) =>
       /\ Cont \notin children(value[2])
       /\ base_set(value[2]) \cap DOMAIN map = {}
       /\ base_set(value[2]) # {}
  /\ check # Unset =>
       /\ \A call \in check_all_calls(logic) :
            /\ Cardinality(base_set(call[2])) < Cardinality(base_set(call[1]))
            /\ NoBase \notin check_all(call[2])
       /\ check = NoBase => base_set(logic) = {}

\* eval_part has simplified a formula with a Cont in it to a residual, and
\* check_all has called itself on the same formula
C21_Witness ==
  /\ value # Unset /\ value # None /\ value # Some(Cont)
  /\ Cont \in children(logic)
  /\ base_set(logic) \cap DOMAIN map # {}
  /\ check # Unset
  /\ check_all_calls(logic) # {}

\* the lines of a TeX rendering that open a node, one for each node
NodeLines(tree) ==
  LET Opens(line) == line[2] \in {"[]_", "\\infer"} IN SelectSeq(tree, Opens)

\* In one rendering (its lines that open a node, in order, and its labels)
\* every Axiom leaf comes after a node that owns the marker the leaf refers
\* to, that marker has a label of at least 1 from this rendering, and
\* `number(line)`, what the leaf's line displays of it, is that label.
LeavesAfterOwners(lines, labels, number(_)) ==
  LET nodes == PreOrder(Proof) IN
  /\ Len(lines) = Len(nodes)
  /\ \A n \in 1..Len(nodes) :
       nodes[n].inference[1] = "Axiom" =>
         LET m == nodes[n].inference[2] IN
         /\ \E k \in 1..(n - 1) : nodes[k].marker = m
         /\ m \in DOMAIN labels
         /\ labels[m] >= 1
         /\ number(lines[n]) \in {labels[m], -1}

\* what an ASCII line displays of the marker its leaf refers to; -1 when the
\* line shows the leaf's own label instead
AsciiFrom(line) ==
  IF line[3] # <<>> /\ line[3][1] = " from: " THEN line[3][2]
  ELSE IF line[3] # <<>> THEN -1 ELSE 0

\* what a TeX line displays of the marker its leaf refers to
TexFrom(line) == line[4][1]

\* C22 (leaves are printed after their marker is stamped): in both
\* renderers, when an Axiom leaf is printed, the node that owns the marker
\* the leaf refers to has been printed earlier in the same pass and has
\* stamped the marker with a label of at least 1; the leaf displays that
\* label, never the initial 0.
C22_LeavesAfterOwners ==
  /\ shown.ascii.done =>
       LeavesAfterOwners(shown.ascii.tree, shown.ascii.labels, AsciiFrom)
  /\ shown.tex.done =>
       LeavesAfterOwners(NodeLines(shown.tex.tree), shown.tex.labels, TexFrom)

\* both renderers have printed a proof with an or-elimination in it, whose
\* branch leaves refer to the marker of the first premise
C22_Witness ==
  /\ shown.ascii.done
  /\ shown.tex.done
  /\ \E n \in 1..Len(PreOrder(Proof)) :
       LET node == PreOrder(Proof)[n] IN
       /\ node.inference[1] = "TrinaryInf"
       /\ Children(node)[1].marker \in LeafMarkers(Children(node)[2])

====
